---- MODULE Spec2Model ----
(***************************************************************************)
(* Model of the plan / normalize / execute pipeline of LlmAgent            *)
(* (langchain_agent.py) running against a PlaywrightController             *)
(* (playwright_tools.py), of the controller's page and snapshot cache,     *)
(* and of main's run over the test cases (main.py).                        *)
(*                                                                         *)
(* Spec is one call of execute_test; SpecSession is the controller called  *)
(* by any caller in any order; SpecRun is one run of main.  Each leaves    *)
(* the variables of the others as Init set them.                           *)
(*                                                                         *)
(* Text is a sequence of atoms.  The structural characters the code looks  *)
(* at ( [ ] { } , : ' " and whitespace ) are atoms of their own; a run of  *)
(* other characters (a word, a selector fragment) is one atom.  No atom    *)
(* is a substring of another, so Python's substring test on str is the     *)
(* membership of the atom in the sequence.                                 *)
(*                                                                         *)
(* A JSON value is a record [t, s, keys, kids]: t is its type, s the       *)
(* content of a string or number, keys/kids the keys and values of an      *)
(* object (in insertion order), kids the elements of an array.  Python's   *)
(* None is JNull.                                                          *)
(***************************************************************************)
EXTENDS Integers, Sequences, FiniteSets, TLC

\* ------------------------------------------------------------------------
\* JSON values (what json.loads returns)
\* ------------------------------------------------------------------------
JNull == [t |-> "null", s |-> <<>>, keys |-> <<>>, kids |-> <<>>]

JNum(a) == [t |-> "num", s |-> <<a>>, keys |-> <<>>, kids |-> <<>>]

JStr(txt) == [t |-> "str", s |-> txt, keys |-> <<>>, kids |-> <<>>]

JArr(items) == [t |-> "arr", s |-> <<>>, keys |-> <<>>, kids |-> items]

JObj(ks, vs) == [t |-> "obj", s |-> <<>>, keys |-> ks, kids |-> vs]

\* a one-word string, and the key it makes
W(a) == JStr(<<a>>)

K(a) == <<a>>

Range(f) == {f[i] : i \in DOMAIN f}

IsDict(v) == v.t = "obj"

IsStr(v) == v.t = "str"

\* position of key k in dict d, 0 when absent
KeyPos(d, k) ==
    IF \E i \in DOMAIN d.keys : d.keys[i] = k
    THEN CHOOSE i \in DOMAIN d.keys : d.keys[i] = k
    ELSE 0

\* k in d, for a dict d
HasKey(d, k) == KeyPos(d, k) # 0

\* d[k], for a dict d that has k
Item(d, k) == d.kids[KeyPos(d, k)]

\* d.get(k, default)
Get(d, k, default) == IF HasKey(d, k) THEN Item(d, k) ELSE default

\* d[k] = v : an existing key keeps its place, a new key goes last
DictSet(d, k, v) ==
    IF HasKey(d, k)
    THEN JObj(d.keys, [d.kids EXCEPT ![KeyPos(d, k)] = v])
    ELSE JObj(Append(d.keys, k), Append(d.kids, v))

RECURSIVE DictUpdateFrom(_, _, _)
\* d.update(o), from o's i-th item on
DictUpdateFrom(d, o, i) ==
    IF i > Len(o.keys) THEN d
    ELSE DictUpdateFrom(DictSet(d, o.keys[i], o.kids[i]), o, i + 1)

DictUpdate(d, o) == DictUpdateFrom(d, o, 1)

\* ------------------------------------------------------------------------
\* json.loads on a text
\* ------------------------------------------------------------------------
WS == {" "}

NumAtoms == {"1", "429"}

DQ == "\""

SQ == "'"

Fail == [ok |-> FALSE, val |-> JNull, pos |-> 0]

Ok(v, p) == [ok |-> TRUE, val |-> v, pos |-> p]

\* first position from p on that holds no whitespace (Len + 1 at the end)
SkipWs(txt, p) ==
    IF \E i \in p..Len(txt) : txt[i] \notin WS
    THEN CHOOSE i \in p..Len(txt) :
            txt[i] \notin WS /\ \A j \in p..(i - 1) : txt[j] \in WS
    ELSE IF p > Len(txt) THEN p ELSE Len(txt) + 1

At(txt, p) == IF p >= 1 /\ p <= Len(txt) THEN txt[p] ELSE "<eof>"

\* first position from p on that holds atom c, 0 when there is none
FindFrom(txt, p, c) ==
    IF \E i \in p..Len(txt) : txt[i] = c
    THEN CHOOSE i \in p..Len(txt) : txt[i] = c /\ \A j \in p..(i - 1) : txt[j] # c
    ELSE 0

\* a string whose opening quote is at p - 1: up to the next double quote
ScanString(txt, p) ==
    LET q == FindFrom(txt, p, DQ)
    IN  IF q = 0 THEN Fail ELSE Ok(JStr(SubSeq(txt, p, q - 1)), q + 1)

RECURSIVE ParseValue(_, _)
RECURSIVE ParseItems(_, _, _)
RECURSIVE ParseMembers(_, _, _)

\* the value that starts at p
ParseValue(txt, p) ==
    LET c == At(txt, p)
    IN  IF c = DQ THEN ScanString(txt, p + 1)
        ELSE IF c = "[" THEN
            LET q == SkipWs(txt, p + 1)
            IN  IF At(txt, q) = "]" THEN Ok(JArr(<<>>), q + 1)
                ELSE ParseItems(txt, q, <<>>)
        ELSE IF c = "{" THEN
            LET q == SkipWs(txt, p + 1)
            IN  IF At(txt, q) = "}" THEN Ok(JObj(<<>>, <<>>), q + 1)
                ELSE ParseMembers(txt, q, JObj(<<>>, <<>>))
        ELSE IF c \in NumAtoms THEN Ok(JNum(c), p + 1)
        ELSE IF c = "null" THEN Ok(JNull, p + 1)
        ELSE Fail

\* the elements of an array from p on, acc being those already read
ParseItems(txt, p, acc) ==
    LET v == ParseValue(txt, p)
    IN  IF ~v.ok THEN Fail
        ELSE LET q == SkipWs(txt, v.pos)
             IN  IF At(txt, q) = "]" THEN Ok(JArr(Append(acc, v.val)), q + 1)
                 ELSE IF At(txt, q) = ","
                      THEN ParseItems(txt, SkipWs(txt, q + 1), Append(acc, v.val))
                 ELSE Fail

\* the members of an object from p on, d being those already read
ParseMembers(txt, p, d) ==
    IF At(txt, p) # DQ THEN Fail
    ELSE LET k == ScanString(txt, p + 1)
         IN  IF ~k.ok THEN Fail
             ELSE LET q == SkipWs(txt, k.pos)
                  IN  IF At(txt, q) # ":" THEN Fail
                      ELSE LET v == ParseValue(txt, SkipWs(txt, q + 1))
                           IN  IF ~v.ok THEN Fail
                               ELSE LET r == SkipWs(txt, v.pos)
                                        d2 == DictSet(d, k.val.s, v.val)
                                    IN  IF At(txt, r) = "}" THEN Ok(d2, r + 1)
                                        ELSE IF At(txt, r) = ","
                                             THEN ParseMembers(txt, SkipWs(txt, r + 1), d2)
                                        ELSE Fail

\* json.loads(txt): one value, whitespace around it, nothing else
JsonLoads(txt) ==
    LET v == ParseValue(txt, SkipWs(txt, 1))
    IN  IF v.ok /\ SkipWs(txt, v.pos) = Len(txt) + 1 THEN v ELSE Fail

\* ------------------------------------------------------------------------
\* LlmAgent._extract_json
\* ------------------------------------------------------------------------
\* last position that holds atom c, 0 when there is none
FindLast(txt, c) ==
    IF \E i \in DOMAIN txt : txt[i] = c
    THEN CHOOSE i \in DOMAIN txt : txt[i] = c /\ \A j \in (i + 1)..Len(txt) : txt[j] # c
    ELSE 0

\* re.search(r"(\[[\s\S]*\])", text): from the first "[" to the last "]"
\* after it (the star is greedy and matches anything); <<>> stands for no match
ReSearchArray(txt) ==
    LET i == FindFrom(txt, 1, "[")
        j == FindLast(txt, "]")
    IN  IF i # 0 /\ j > i THEN SubSeq(txt, i, j) ELSE <<>>

\* str.replace("'", '"')
ReplaceQuotes(txt) == [i \in DOMAIN txt |-> IF txt[i] = SQ THEN DQ ELSE txt[i]]

\* a match of ,\s*([}\]]) starts at c: a comma, whitespace, a closing
\* bracket or brace.  Two matches never overlap.
CommaMatch(txt, c) == txt[c] = "," /\ At(txt, SkipWs(txt, c + 1)) \in {"}", "]"}

\* the positions of the commas and the whitespace of the matches
Stripped(txt) ==
    UNION {c..(SkipWs(txt, c + 1) - 1) : c \in {i \in DOMAIN txt : CommaMatch(txt, i)}}

RECURSIVE Pick(_, _, _, _)
\* the subsequence of txt at the positions of lo..hi that are in keep
Pick(txt, keep, lo, hi) ==
    IF lo > hi THEN <<>>
    ELSE IF lo = hi THEN (IF lo \in keep THEN <<txt[lo]>> ELSE <<>>)
    ELSE LET mid == (lo + hi) \div 2
         IN  Pick(txt, keep, lo, mid) \o Pick(txt, keep, mid + 1, hi)

\* re.sub(r",\s*([}\]])", r"\1", text): every match becomes its bracket or brace
StripTrailingCommas(txt) == Pick(txt, DOMAIN txt \ Stripped(txt), 1, Len(txt))

\* _extract_json(text): ok is FALSE for None
ExtractJson(txt) ==
    LET m == ReSearchArray(txt)
        strict == JsonLoads(m)
        fixed == JsonLoads(StripTrailingCommas(ReplaceQuotes(m)))
    IN  IF m = <<>> THEN Fail
        ELSE IF strict.ok THEN strict
        ELSE fixed

\* ------------------------------------------------------------------------
\* normalize_action (nested in LlmAgent.execute_test)
\* ------------------------------------------------------------------------
PriorityKeys == <<"click", "fill", "assert", "wait", "open", "explain">>

\* "k in act" raises TypeError: a number and None are not iterable
InRaises(act) == act.t \in {"num", "null"}

\* "k in act" for a dict (key), a str (substring) and a list (element)
In(k, act) ==
    CASE act.t = "obj" -> HasKey(act, K(k))
      [] act.t = "str" -> k \in Range(act.s)
      [] act.t = "arr" -> W(k) \in Range(act.kids)
      [] OTHER -> FALSE

\* the first key of the priority list that is in act, 0 when none is
FirstKey(act) ==
    IF \E i \in DOMAIN PriorityKeys : In(PriorityKeys[i], act)
    THEN CHOOSE i \in DOMAIN PriorityKeys :
            /\ In(PriorityKeys[i], act)
            /\ \A j \in 1..(i - 1) : ~In(PriorityKeys[j], act)
    ELSE 0

\* the new_act built for key from its value v in act
NewAct(key, v) ==
    LET new_act == JObj(<<K("action")>>, <<W(key)>>)
    IN  IF IsStr(v) THEN DictSet(new_act, K("selector"), v)
        ELSE IF IsDict(v) THEN DictUpdate(new_act, v)
        ELSE new_act

\* normalize_action without its test for an "action" key
NormalizeActionUnguarded(act) ==
    IF InRaises(act) THEN [raised |-> TRUE, val |-> JNull]
    ELSE IF FirstKey(act) = 0 THEN [raised |-> FALSE, val |-> act]
    ELSE IF ~IsDict(act) THEN [raised |-> TRUE, val |-> JNull]
    ELSE LET key == PriorityKeys[FirstKey(act)]
         IN  [raised |-> FALSE, val |-> NewAct(key, Item(act, K(key)))]

\* normalize_action(act): raised is TRUE when it raises TypeError, at the
\* membership test on a number or None, or at act[key] on a str or a list
NormalizeAction(act) ==
    IF InRaises(act) THEN [raised |-> TRUE, val |-> JNull]
    ELSE IF In("action", act) \/ FirstKey(act) = 0
         THEN [raised |-> FALSE, val |-> act]
    ELSE IF ~IsDict(act) THEN [raised |-> TRUE, val |-> JNull]
    ELSE LET key == PriorityKeys[FirstKey(act)]
         IN  [raised |-> FALSE, val |-> NewAct(key, Item(act, K(key)))]

\* ------------------------------------------------------------------------
\* What the LLM backend may answer: the text of a JSON array of elements,
\* in double or single quotes, with or without trailing commas, inside
\* other text; text with no array; or a failed call.
\* ------------------------------------------------------------------------
MaxPlanLen == 2

Obj(ks, vs) == JObj([i \in DOMAIN ks |-> K(ks[i])], vs)

ActOpen == Obj(<<"action", "selector">>, <<W("open"), W("https://example.com")>>)

ActClick == Obj(<<"action", "selector">>, <<W("click"), W("#accept")>>)

ActFill == Obj(<<"action", "selector", "value">>, <<W("fill"), W("#email"), W("a@b.com")>>)

ActAssert == Obj(<<"action", "selector", "expected">>, <<W("assert"), W("#welcome"), W("Welcome")>>)

ActWait == Obj(<<"action", "selector">>, <<W("wait"), W("#accept")>>)

ActExplain == Obj(<<"action", "message">>, <<W("explain"), W("note")>>)

ActDance == Obj(<<"action">>, <<W("dance")>>)

ActNoKind == Obj(<<"selector">>, <<W("#accept")>>)

ActQuoted ==
    Obj(<<"action", "selector">>,
        <<W("click"), JStr(<<"button:has-text(", SQ, "Accept", SQ, ")">>)>>)

ShortClick == Obj(<<"click">>, <<W("#accept")>>)

ShortFill ==
    Obj(<<"fill">>, <<Obj(<<"selector", "value">>, <<W("#email"), W("a@b.com")>>)>>)

ShortNested ==
    Obj(<<"click">>, <<Obj(<<"action", "selector">>, <<W("fill"), W("#email")>>)>>)

ShortTwo == Obj(<<"fill", "click">>, <<W("#email"), W("#accept")>>)

ShortNum == Obj(<<"click">>, <<JNum("1")>>)

\* an action that also has a key of the priority list
ActBoth == Obj(<<"action", "fill">>, <<W("click"), W("#email")>>)

ElemPool ==
    { ActOpen, ActClick, ActFill, ActAssert, ActWait, ActExplain, ActDance,
      ActNoKind, ActQuoted, ShortClick, ShortFill, ShortNested, ShortTwo,
      ShortNum, ActBoth, W("click"), W("hello"), JNum("1"), JNull,
      JArr(<<JNum("1")>>) }

SpecCasePlan == <<ActOpen, ActClick, ActFill, ActAssert>>

\* the elements that longer plans are made of
CorePool ==
    { ActOpen, ActClick, ActFill, ActAssert, ActExplain, ActDance, JNum("1") }

\* every element alone, the core elements in every order, and the spec's case
Plans ==
    {<<e>> : e \in ElemPool}
    \cup UNION {[1..n -> CorePool] : n \in 2..MaxPlanLen}
    \cup {SpecCasePlan}

Styles == [q : {DQ, SQ}, trail : BOOLEAN]

RECURSIVE Ser(_, _)
RECURSIVE SerItems(_, _, _)
RECURSIVE SerMembers(_, _, _)

\* the text of value v in style st
Ser(v, st) ==
    CASE v.t = "str" -> <<st.q>> \o v.s \o <<st.q>>
      [] v.t = "num" -> v.s
      [] v.t = "null" -> <<"null">>
      [] v.t = "arr" ->
            <<"[">> \o SerItems(v.kids, 1, st)
                    \o (IF st.trail /\ v.kids # <<>> THEN <<",">> ELSE <<>>) \o <<"]">>
      [] v.t = "obj" ->
            <<"{">> \o SerMembers(v, 1, st)
                    \o (IF st.trail /\ v.kids # <<>> THEN <<",">> ELSE <<>>) \o <<"}">>

SerItems(items, i, st) ==
    IF i > Len(items) THEN <<>>
    ELSE (IF i > 1 THEN <<",", " ">> ELSE <<>>)
         \o Ser(items[i], st) \o SerItems(items, i + 1, st)

SerMembers(d, i, st) ==
    IF i > Len(d.keys) THEN <<>>
    ELSE (IF i > 1 THEN <<",", " ">> ELSE <<>>)
         \o <<st.q>> \o d.keys[i] \o <<st.q, ":", " ">>
         \o Ser(d.kids[i], st) \o SerMembers(d, i + 1, st)

RECURSIVE Atoms(_)
\* the atoms inside the strings and keys of v
Atoms(v) ==
    Range(v.s)
    \cup UNION {Range(v.keys[i]) : i \in DOMAIN v.keys}
    \cup UNION {Atoms(v.kids[i]) : i \in DOMAIN v.kids}

\* v can be written in style st: no string of v holds the quote of st
Writable(v, st) == st.q \notin Atoms(v)

Prefixes == {<<>>, <<"Sure!", " ">>, <<"see", " ", "[", "1", "]", ":", " ">>}

Suffixes == {<<>>, <<" ", "Done.">>}

ArrayTexts(plan) ==
    {pre \o Ser(JArr(plan), st) \o suf :
        pre \in Prefixes, suf \in Suffixes,
        st \in {x \in Styles : Writable(JArr(plan), x)}}

\* answers that hold no array, or one that is not JSON, or an empty one
PlainTexts ==
    { <<>>, <<"Sorry">>, <<"]", " ", "[">>,
      <<"{", DQ, "action", DQ, ":", DQ, "click", DQ, "}">>,
      <<"[", "oops", "]">>, <<"[", "]">> }

\* str(e) of the exception a failed backend call raises
ErrTexts ==
    { <<"timeout">>, <<"Error", " ", "code:", " ", "429">>,
      <<"rate", " ", "limit", " ", "[", "429", "]">>,
      <<"bad", " ", "request:", " ">> \o Ser(JArr(<<ActClick>>), [q |-> SQ, trail |-> FALSE]) }

\* ------------------------------------------------------------------------
\* State
\* ------------------------------------------------------------------------
VARIABLES
    pc,       \* where execute_test is: idle, describe, call, extract, parsed,
              \* loop, dispatch, done (returned) or raised (an exception left it)
    page,     \* PlaywrightController.page is set
    raw,      \* _plan_actions' raw: the text _call_llm returned
    llm,      \* what the backend did: src is array, plain or transport, and
              \* val the array whose text it answered (src = "array")
    parsed,   \* _plan_actions' parsed: the result of _extract_json
    actions,  \* execute_test's actions, which is result["actions"]
    idx,      \* the loop's idx
    act,      \* the loop's act: the normalized action
    status,   \* result["status"]
    errors,   \* result["errors"]
    calls,    \* the calls made on page_controller, in order
    outs,     \* what happened to each action in the browser, by position
    exc,      \* the exception that left execute_test
    \* PlaywrightController, used on its own
    url,        \* self.page.url
    dom,        \* the elements the page's query would return now
    dom_cache,  \* self._dom_cache
    queries,    \* how often query_selector_all was invoked, per URL
    last,       \* the last operation called on the controller and how it ended
    ret,        \* what the last get_page_elements returned
    \* main
    mpc,          \* where main is
    playwright,   \* pw.playwright is set
    browser,      \* pw.browser is set
    context,      \* pw.context is set
    tests,        \* main's tests, by name
    all_results,  \* main's all_results
    events,       \* what main did with the session, in order
    report,       \* the report file
    pending,      \* the exception on its way out of main
    ti            \* how many tests of the loop are over

\* execute_test and the controller's page
evars == <<pc, page, raw, llm, parsed, actions, idx, act, status, errors, calls, outs, exc>>

\* execute_test alone
xvars == <<pc, raw, llm, parsed, actions, idx, act, status, errors, calls, outs, exc>>

\* the controller's session
svars == <<url, dom, dom_cache, queries, last, ret>>

\* main's run
rvars == <<mpc, playwright, browser, context, tests, ti, all_results, events, report, pending>>

vars == <<evars, svars, rvars>>

NoAnswer == [src |-> "none", val |-> JNull]

\* the URLs the page can be at
URLs == {"about:blank", "https://example.com"}

\* no page, no URL
NoUrl == ""

\* self._dom_cache has no entry for a URL, or the summary stored for it
NoEntry == [has |-> FALSE, val |-> <<>>]

Entry(summary) == [has |-> TRUE, val |-> summary]

\* query_selector_all was not invoked for a URL
NoQuery == [returned |-> 0, raised |-> 0]

\* a call of a controller operation: how the browser took it, and whether the
\* operation raised to its caller
Called(op, out, raised) == [op |-> op, out |-> out, raised |-> raised]

\* no report file
NoReport == [state |-> "none", data |-> <<>>]

Init ==
    /\ pc = "idle"
    /\ page = FALSE
    /\ raw = <<>>
    /\ llm = NoAnswer
    /\ parsed = Fail
    /\ actions = <<>>
    /\ idx = 0
    /\ act = JNull
    /\ status = "none"
    /\ errors = <<>>
    /\ calls = <<>>
    /\ outs = <<>>
    /\ exc = "none"
    /\ url = NoUrl
    /\ dom = <<>>
    /\ dom_cache = [u \in URLs |-> NoEntry]
    /\ queries = [u \in URLs |-> NoQuery]
    /\ last = Called("__init__", "ok", FALSE)
    /\ ret = <<>>
    /\ mpc = "start"
    /\ playwright = FALSE
    /\ browser = FALSE
    /\ context = FALSE
    /\ tests = <<>>
    /\ ti = 0
    /\ all_results = <<>>
    /\ events = <<>>
    /\ report = NoReport
    /\ pending = "none"

\* pw.launch() and pw.new_context() on the controller: the context's page is
\* created, and a new page is at about:blank with nothing in it
CreatePage ==
    /\ page' = TRUE
    /\ url' = "about:blank"
    /\ dom' = <<>>
    /\ last' = Called("new_context", "ok", FALSE)

\* the controller is set up before execute_test is called
NewContext ==
    /\ pc = "idle"
    /\ ~page
    /\ CreatePage
    /\ UNCHANGED <<xvars, dom_cache, queries, ret, rvars>>

\* execute_test is called: the result is created
ExecuteTest ==
    /\ pc = "idle"
    /\ pc' = "describe"
    /\ status' = "ok"
    /\ errors' = <<>>
    /\ actions' = <<>>
    /\ UNCHANGED <<page, raw, llm, parsed, idx, act, calls, outs, exc, svars, rvars>>

\* Step 1, page_controller.describe_page() returns a summary
DescribePage ==
    /\ pc = "describe"
    /\ pc' = "call"
    /\ UNCHANGED <<page, raw, llm, parsed, actions, idx, act, status, errors, calls, outs, exc, svars, rvars>>

DescribeFailure ==
    [index |-> -1, kind |-> "describe", msg |-> W("describe_page() failed"), action |-> JNull]

\* Step 1, page_controller.describe_page() raises: recorded without an index
DescribePageRaises ==
    /\ pc = "describe"
    /\ pc' = "call"
    /\ errors' = Append(errors, DescribeFailure)
    /\ UNCHANGED <<page, raw, llm, parsed, actions, idx, act, status, calls, outs, exc, svars, rvars>>

\* _call_llm returns; the backend is always groq once __init__ has returned
CallLlmReturns(text, answer) ==
    /\ pc = "call"
    /\ pc' = "extract"
    /\ raw' = text
    /\ llm' = answer
    /\ UNCHANGED <<page, parsed, actions, idx, act, status, errors, calls, outs, exc, svars, rvars>>

\* the backend answers the text of an array
LlmAnswersArray ==
    /\ pc = "call"
    /\ \E plan \in Plans : \E text \in ArrayTexts(plan) :
          CallLlmReturns(text, [src |-> "array", val |-> JArr(plan)])

\* the backend answers some other text
LlmAnswersPlain ==
    /\ pc = "call"
    /\ \E text \in PlainTexts : CallLlmReturns(text, [src |-> "plain", val |-> JNull])

\* _call_llm's except branch: the sentinel and str(e)
CallErrorText(e) == <<"__LLM_CALL_ERROR__", " ">> \o e

\* the backend call raises
LlmCallFails ==
    /\ pc = "call"
    /\ \E e \in ErrTexts :
          CallLlmReturns(CallErrorText(e), [src |-> "transport", val |-> JNull])

\* _plan_actions: parsed = self._extract_json(raw)
ExtractStep ==
    /\ pc = "extract"
    /\ pc' = "parsed"
    /\ parsed' = ExtractJson(raw)
    /\ UNCHANGED <<page, raw, llm, actions, idx, act, status, errors, calls, outs, exc, svars, rvars>>

\* the fallback without the raw text
ExplainFallbackNoRaw(text) ==
    Obj(<<"action", "message">>, <<W("explain"), W("Failed to parse model output")>>)

\* the action _plan_actions makes up when nothing was parsed
ExplainFallback(text) ==
    Obj(<<"action", "message", "raw">>,
        <<W("explain"), W("Failed to parse model output"), JStr(text)>>)

\* "if parsed:" : not None and not an empty list
Truthy(res) == res.ok /\ res.val.kids # <<>>

\* what _plan_actions returns
PlanResult(res, text) == IF Truthy(res) THEN res.val.kids ELSE <<ExplainFallback(text)>>

\* _plan_actions returns, and Step 2 stores the plan in the result
PlanActions ==
    /\ pc = "parsed"
    /\ pc' = "loop"
    /\ actions' = PlanResult(parsed, raw)
    /\ idx' = 0
    /\ raw' = <<>>
    /\ parsed' = Fail
    /\ UNCHANGED <<page, llm, act, status, errors, calls, outs, exc, svars, rvars>>

\* ------------------------------------------------------------------------
\* PlaywrightController's operations.  out is what the browser does with the
\* call: nopage when self.page is not set, else ok or error (the navigation,
\* the bounded wait or the act on the element throws), and for assert_text
\* match, mismatch or timeout.
\* ------------------------------------------------------------------------
DEFAULT_TIMEOUT == 5000

OpenPageOuts(pg) == IF pg THEN {"ok", "error"} ELSE {"nopage"}

\* open_page raises without a page, and lets page.goto's exception through
OpenPageRaises(out) == out \in {"nopage", "error"}

FillOuts(pg) == IF pg THEN {"ok", "error"} ELSE {"nopage"}

\* fill raises without a page; the locator's exception is logged and dropped
FillRaises(out) == out = "nopage"

ClickOuts(pg) == IF pg THEN {"ok", "error"} ELSE {"nopage"}

\* click raises without a page; the locator's exception is logged and dropped
ClickRaises(out) == out = "nopage"

AssertTextOuts(pg) == IF pg THEN {"match", "mismatch", "timeout"} ELSE {"nopage"}

\* assert_text returns False without a page, on a timeout and on any other
\* exception, and the comparison's result otherwise: it never raises
AssertTextRaises(out) == FALSE

AssertTextReturns(out) == out = "match"

WaitForOuts(pg) == IF pg THEN {"ok", "error"} ELSE {"nopage"}

\* wait_for raises without a page; the wait's exception is logged and dropped
WaitForRaises(out) == out = "nopage"

\* str(e) of what an operation raises
ErrorText(out) ==
    IF out = "nopage" THEN W("No page available. Call new_context() first.")
    ELSE W("playwright error")

\* ------------------------------------------------------------------------
\* Step 4 of execute_test: the loop over the plan
\* ------------------------------------------------------------------------
EmptyStr == JStr(<<>>)

\* idx < len(actions): the loop has an element to take
InLoop == pc = "loop" /\ idx < Len(actions)

\* normalize_action writing the normalized form into its argument
ArgNormalizedInPlace(raw_act) == NormalizeAction(raw_act).val

\* the argument of normalize_action after the call: it is only read, what is
\* written is the new dict new_act
ArgAfterNormalize(raw_act) == raw_act

\* act = normalize_action(raw_act) returns
Normalize ==
    /\ InLoop
    /\ ~NormalizeAction(actions[idx + 1]).raised
    /\ act' = NormalizeAction(actions[idx + 1]).val
    /\ actions' = [actions EXCEPT ![idx + 1] = ArgAfterNormalize(@)]
    /\ pc' = "dispatch"
    /\ UNCHANGED <<page, raw, llm, parsed, idx, status, errors, calls, outs, exc, svars, rvars>>

\* normalize_action raises TypeError, outside the loop's try
NormalizeRaises ==
    /\ InLoop
    /\ NormalizeAction(actions[idx + 1]).raised
    /\ pc' = "raised"
    /\ exc' = "TypeError"
    /\ UNCHANGED <<page, raw, llm, parsed, actions, idx, act, status, errors, calls, outs, svars, rvars>>

\* act.get("action") on a str or a list raises AttributeError, outside the try
GetRaises ==
    /\ pc = "dispatch"
    /\ ~IsDict(act)
    /\ pc' = "raised"
    /\ exc' = "AttributeError"
    /\ UNCHANGED <<page, raw, llm, parsed, actions, idx, act, status, errors, calls, outs, svars, rvars>>

\* a = act.get("action"), sel = act.get("selector")
KindOf(a) == Get(a, K("action"), JNull)

SelOf(a) == Get(a, K("selector"), JNull)

Kinds == {"open", "fill", "click", "assert", "wait", "explain"}

IsKind(a, k) == IsDict(a) /\ KindOf(a) = W(k)

\* the entry of the except branch with positions counted from 1
ExceptionEntryOneBased(i, a, out) ==
    [index |-> i + 1, kind |-> "exception", msg |-> ErrorText(out), action |-> a]

ExceptionEntry(i, a, out) ==
    [index |-> i, kind |-> "exception", msg |-> ErrorText(out), action |-> a]

\* the except branch of the loop's try
AfterRaise(out) ==
    /\ status' = "failed"
    /\ errors' = Append(errors, ExceptionEntry(idx, act, out))

\* one call of a page_controller operation inside the try, and the next idx
Dispatch(op, arg, out, raises) ==
    /\ calls' = Append(calls, [op |-> op, idx |-> idx, sel |-> SelOf(act), arg |-> arg,
                               raised |-> raises])
    /\ outs' = Append(outs, out)
    /\ IF raises THEN AfterRaise(out) ELSE UNCHANGED <<status, errors>>
    /\ idx' = idx + 1
    /\ pc' = "loop"
    /\ UNCHANGED <<page, raw, llm, parsed, actions, act, exc, svars, rvars>>

StepOpen ==
    /\ pc = "dispatch" /\ IsKind(act, "open")
    /\ \E out \in OpenPageOuts(page) :
          Dispatch("open_page", JNull, out, OpenPageRaises(out))

StepFill ==
    /\ pc = "dispatch" /\ IsKind(act, "fill")
    /\ \E out \in FillOuts(page) :
          Dispatch("fill", Get(act, K("value"), EmptyStr), out, FillRaises(out))

StepClick ==
    /\ pc = "dispatch" /\ IsKind(act, "click")
    /\ \E out \in ClickOuts(page) :
          Dispatch("click", JNull, out, ClickRaises(out))

StepAssert ==
    /\ pc = "dispatch" /\ IsKind(act, "assert")
    /\ \E out \in AssertTextOuts(page) :
          Dispatch("assert_text", Get(act, K("expected"), EmptyStr), out, AssertTextRaises(out))

StepWait ==
    /\ pc = "dispatch" /\ IsKind(act, "wait")
    /\ \E out \in WaitForOuts(page) :
          Dispatch("wait_for", JNull, out, WaitForRaises(out))

\* an error entry appended with no operation called, and the next idx
Record(entry) ==
    /\ errors' = Append(errors, entry)
    /\ outs' = Append(outs, "none")
    /\ idx' = idx + 1
    /\ pc' = "loop"
    /\ UNCHANGED <<page, raw, llm, parsed, actions, act, status, calls, exc, svars, rvars>>

ExplainEntry(i, a) ==
    [index |-> i, kind |-> "explain", msg |-> Get(a, K("message"), W("explain step")),
     action |-> JNull]

\* the message is "Unknown action" and the kind found
UnknownEntry(i, a) ==
    [index |-> i, kind |-> "unknown", msg |-> KindOf(a), action |-> JNull]

StepExplain ==
    /\ pc = "dispatch" /\ IsKind(act, "explain")
    /\ Record(ExplainEntry(idx, act))

StepUnknown ==
    /\ pc = "dispatch" /\ IsDict(act)
    /\ \A k \in Kinds : ~IsKind(act, k)
    /\ Record(UnknownEntry(idx, act))

\* Step 5 left out: the status stays as the loop left it
FinalStatusKept(st, errs) == st

\* Step 5: any entry makes the status failed
FinalStatus(st, errs) == IF errs # <<>> THEN "failed" ELSE st

\* the loop is over: Step 5, and execute_test returns the result
Return ==
    /\ pc = "loop"
    /\ idx = Len(actions)
    /\ status' = FinalStatus(status, errors)
    /\ pc' = "done"
    /\ UNCHANGED <<page, raw, llm, parsed, actions, idx, act, errors, calls, outs, exc, svars, rvars>>

Next ==
    \/ NewContext
    \/ ExecuteTest
    \/ DescribePage
    \/ DescribePageRaises
    \/ LlmAnswersArray
    \/ LlmAnswersPlain
    \/ LlmCallFails
    \/ ExtractStep
    \/ PlanActions
    \/ Normalize
    \/ NormalizeRaises
    \/ GetRaises
    \/ StepOpen
    \/ StepFill
    \/ StepClick
    \/ StepAssert
    \/ StepWait
    \/ StepExplain
    \/ StepUnknown
    \/ Return

Spec == Init /\ [][Next]_vars

\* ------------------------------------------------------------------------
\* PlaywrightController used on its own: any caller, any order of calls.
\* The page is at a URL and holds the elements its query would return now;
\* what the page shows changes with navigation and with interaction.
\* ------------------------------------------------------------------------
MaxQueries == 2

\* an element handle the query returns; reading a detached one throws
Cand(e, d) == [el |-> e, detached |-> d]

Email == Cand("input#email", FALSE)

Accept == Cand("button#accept", FALSE)

Gone == Cand("a#home", TRUE)

\* what query_selector_all can find on a page
Doms ==
    { <<>>, <<Email, Accept>>, <<Accept, Email>>, <<Email, Gone, Accept>>,
      <<Gone, Accept>>, <<Gone>> }

\* the loop over the elements with the first failure ending it
RECURSIVE SummarizeAbort(_, _, _)
SummarizeAbort(elements, i, summary) ==
    IF i > Len(elements) THEN summary
    ELSE IF elements[i].detached THEN summary
    ELSE SummarizeAbort(elements, i + 1, Append(summary, elements[i].el))

\* get_page_elements' loop over elements from the i-th on: the dict of an
\* element is appended to summary, an element whose reading throws is skipped
RECURSIVE Summarize(_, _, _)
Summarize(elements, i, summary) ==
    IF i > Len(elements) THEN summary
    ELSE IF elements[i].detached THEN Summarize(elements, i + 1, summary)
    ELSE Summarize(elements, i + 1, Append(summary, elements[i].el))

\* the cache test that never finds an entry
CacheNeverHit(cache, u) == FALSE

\* "url in self._dom_cache"
CacheHit(cache, u) == cache[u].has

\* the store that keeps the new entry alone
CacheStoreOnly(cache, u, summary) ==
    [v \in URLs |-> IF v = u THEN Entry(summary) ELSE NoEntry]

\* "self._dom_cache[url] = summary"
CacheStore(cache, u, summary) == [cache EXCEPT ![u] = Entry(summary)]

\* how a call of get_page_elements can go: without a page, with an entry for
\* the URL, with the query throwing, with the query returning
GetPageElementsOuts(pg, cache, u) ==
    IF ~pg THEN {"nopage"}
    ELSE IF CacheHit(cache, u) THEN {"hit"}
    ELSE {"queryfail", "scraped"}

\* query_selector_all is invoked once more at u
Queried(q, u, out) ==
    IF out = "scraped" THEN [q EXCEPT ![u].returned = @ + 1]
    ELSE [q EXCEPT ![u].raised = @ + 1]

QueryCount(u) == queries[u].returned + queries[u].raised

\* get_page_elements, called as op
GetPageElements(op) ==
    /\ \E out \in GetPageElementsOuts(page, dom_cache, url) :
          /\ last' = Called(op, out, FALSE)
          /\ CASE out = "nopage" ->
                    ret' = <<>> /\ UNCHANGED <<dom_cache, queries>>
               [] out = "hit" ->
                    ret' = dom_cache[url].val /\ UNCHANGED <<dom_cache, queries>>
               [] out = "queryfail" ->
                    /\ QueryCount(url) < MaxQueries
                    /\ queries' = Queried(queries, url, out)
                    /\ ret' = <<>>
                    /\ UNCHANGED dom_cache
               [] out = "scraped" ->
                    /\ QueryCount(url) < MaxQueries
                    /\ queries' = Queried(queries, url, out)
                    /\ ret' = Summarize(dom, 1, <<>>)
                    /\ dom_cache' = CacheStore(dom_cache, url, Summarize(dom, 1, <<>>))
    /\ UNCHANGED <<page, url, dom, xvars, rvars>>

get_page_elements == GetPageElements("get_page_elements")

\* describe_page returns self.get_page_elements()
describe_page == GetPageElements("describe_page")

\* a call that returns nothing the cache or the page keeps
SessionCall(op, out, raised) ==
    /\ last' = Called(op, out, raised)
    /\ ret' = <<>>
    /\ UNCHANGED <<page, dom_cache, queries, xvars, rvars>>

\* open_page(u): the page is at u with u's elements; when goto throws the
\* page may have left or not
open_page ==
    \E u \in URLs : \E out \in OpenPageOuts(page) :
        /\ SessionCall("open_page", out, OpenPageRaises(out))
        /\ CASE out = "nopage" -> UNCHANGED <<url, dom>>
             [] out = "ok" -> url' = u /\ dom' \in Doms
             [] out = "error" -> url' \in {url, u} /\ dom' \in Doms

\* fill: the page's handlers may change what it shows
fill ==
    \E out \in FillOuts(page) :
        /\ SessionCall("fill", out, FillRaises(out))
        /\ IF out = "ok" THEN dom' \in Doms ELSE UNCHANGED dom
        /\ UNCHANGED url

\* click: the page may change what it shows, and may navigate
click ==
    \E out \in ClickOuts(page) :
        /\ SessionCall("click", out, ClickRaises(out))
        /\ IF out = "ok" THEN url' \in URLs /\ dom' \in Doms ELSE UNCHANGED <<url, dom>>

\* assert_text reads the page and changes nothing
assert_text ==
    \E out \in AssertTextOuts(page) :
        /\ SessionCall("assert_text", out, AssertTextRaises(out))
        /\ UNCHANGED <<url, dom>>

\* wait_for: what the page shows may change while it waits
wait_for ==
    \E out \in WaitForOuts(page) :
        /\ SessionCall("wait_for", out, WaitForRaises(out))
        /\ dom' \in (IF page THEN Doms ELSE {dom})
        /\ UNCHANGED url

SessionNext ==
    \/ NewContext
    \/ get_page_elements
    \/ describe_page
    \/ open_page
    \/ fill
    \/ click
    \/ assert_text
    \/ wait_for

SpecSession == Init /\ [][SessionNext]_vars

\* ------------------------------------------------------------------------
\* main: one run over the test cases.  execute_test is taken as one step
\* with the three ways it ends under Spec: it returns a result whose status
\* is ok or failed, or an exception leaves it.
\* ------------------------------------------------------------------------
MaxTests == 2

\* the .txt files of the directory, by name, in sorted order
TestFiles == <<"01_login", "02_search", "03_cart", "04_logout">>

\* load_testcases returns the first n
Tests(n) == SubSeq(TestFiles, 1, n)

\* main's step at position p, with nothing on its way out
MainAt(p) == mpc = p /\ pending = "none"

\* llm_agent = LlmAgent(...) returns
ConstructAgent ==
    /\ MainAt("start")
    /\ mpc' = "launch"
    /\ UNCHANGED <<evars, svars, playwright, browser, context, tests, ti, all_results,
                   events, report, pending>>

\* LlmAgent.__init__ raises RuntimeError (no backend): main has no try yet
ConstructAgentRaises ==
    /\ MainAt("start")
    /\ mpc' = "exit"
    /\ pending' = "RuntimeError"
    /\ UNCHANGED <<evars, svars, playwright, browser, context, tests, ti, all_results,
                   events, report>>

\* pw.launch() returns
Launch ==
    /\ MainAt("launch")
    /\ events' = Append(events, "launch")
    /\ playwright' = TRUE
    /\ browser' = TRUE
    /\ mpc' = "new_context"
    /\ UNCHANGED <<evars, svars, context, tests, ti, all_results, report, pending>>

\* pw.launch() raises, before or after self.playwright is set
LaunchRaises ==
    /\ MainAt("launch")
    /\ events' = Append(events, "launch")
    /\ playwright' \in BOOLEAN
    /\ pending' = "launch"
    /\ mpc' = "finally"
    /\ UNCHANGED <<evars, svars, browser, context, tests, ti, all_results, report>>

\* pw.new_context() returns: the context and its page exist
MainNewContext ==
    /\ MainAt("new_context")
    /\ events' = Append(events, "new_context")
    /\ context' = TRUE
    /\ CreatePage
    /\ mpc' = "load"
    /\ UNCHANGED <<xvars, dom_cache, queries, ret, playwright, browser, tests, ti,
                   all_results, report, pending>>

\* pw.new_context() raises, before or after self.context is set
MainNewContextRaises ==
    /\ MainAt("new_context")
    /\ events' = Append(events, "new_context")
    /\ context' \in BOOLEAN
    /\ pending' = "new_context"
    /\ mpc' = "finally"
    /\ UNCHANGED <<evars, svars, playwright, browser, tests, ti, all_results, report>>

\* load_testcases returns tests
LoadTestcases ==
    /\ MainAt("load")
    /\ \E n \in 1..MaxTests : tests' = Tests(n)
    /\ mpc' = "loop"
    /\ UNCHANGED <<evars, svars, playwright, browser, context, ti, all_results, events,
                   report, pending>>

\* load_testcases returns no test: main returns from inside the try
NoTestcases ==
    /\ MainAt("load")
    /\ mpc' = "finally"
    /\ UNCHANGED <<evars, svars, playwright, browser, context, tests, ti, all_results,
                   events, report, pending>>

\* load_testcases raises (a file cannot be read)
LoadTestcasesRaises ==
    /\ MainAt("load")
    /\ pending' = "load_testcases"
    /\ mpc' = "finally"
    /\ UNCHANGED <<evars, svars, playwright, browser, context, tests, ti, all_results,
                   events, report>>

\* the loop has a test to run
InTests == MainAt("loop") /\ ti < Len(tests)

\* result["test_name"] = test["name"]; all_results.append(result)
RecordResult(results, name, st) ==
    Append(results, [test_name |-> name, status |-> st, error |-> FALSE])

\* the except branch that appends nothing
RecordNothing(results, name) == results

\* the except branch: all_results.append({test_name, status: failed, error})
RecordException(results, name) ==
    Append(results, [test_name |-> name, status |-> "failed", error |-> TRUE])

\* execute_test returns its result
TestReturns ==
    /\ InTests
    /\ \E st \in {"ok", "failed"} :
          all_results' = RecordResult(all_results, tests[ti + 1], st)
    /\ events' = Append(events, "execute_test")
    /\ ti' = ti + 1
    /\ UNCHANGED <<evars, svars, mpc, playwright, browser, context, tests, report, pending>>

\* an exception leaves execute_test
TestRaises ==
    /\ InTests
    /\ all_results' = RecordException(all_results, tests[ti + 1])
    /\ events' = Append(events, "execute_test")
    /\ ti' = ti + 1
    /\ UNCHANGED <<evars, svars, mpc, playwright, browser, context, tests, report, pending>>

\* the loop is over: pw.save_storage_state(...), which logs its own failure
SaveStorageState ==
    /\ MainAt("loop")
    /\ ti = Len(tests)
    /\ events' = Append(events, "save_storage_state")
    /\ mpc' = "finally"
    /\ UNCHANGED <<evars, svars, playwright, browser, context, tests, ti, all_results,
                   report, pending>>

\* what close() closes, in its order
CloseSteps(pl, br, cx) ==
    (IF cx THEN <<"context.close">> ELSE <<>>)
    \o (IF br THEN <<"browser.close">> ELSE <<>>)
    \o (IF pl THEN <<"playwright.stop">> ELSE <<>>)

\* close() with k of them called: all of them, or up to one that throws,
\* which close() logs
CloseCalls(steps, k) == <<"close">> \o SubSeq(steps, 1, k)

\* a finally branch that does not call close
FinallySkipped(ev, closing) == ev

\* the finally branch: pw.close()
Finally(ev, closing) == ev \o closing

\* finally, with or without an exception on its way out
Close ==
    /\ mpc = "finally"
    /\ LET steps == CloseSteps(playwright, browser, context)
       IN  \E k \in {j \in 0..Len(steps) : j >= 1 \/ steps = <<>>} :
              events' = Finally(events, CloseCalls(steps, k))
    /\ mpc' = "report"
    /\ UNCHANGED <<evars, svars, playwright, browser, context, tests, ti, all_results,
                   report, pending>>

\* the report is written
WriteReport ==
    /\ mpc = "report"
    /\ events' = Append(events, "write_report")
    /\ report' = [state |-> "written", data |-> all_results]
    /\ mpc' = "exit"
    /\ UNCHANGED <<evars, svars, playwright, browser, context, tests, ti, all_results,
                   pending>>

\* the report file cannot be opened: logged
WriteReportFails ==
    /\ mpc = "report"
    /\ events' = Append(events, "write_report")
    /\ mpc' = "exit"
    /\ UNCHANGED <<evars, svars, playwright, browser, context, tests, ti, all_results,
                   report, pending>>

RunNext ==
    \/ ConstructAgent
    \/ ConstructAgentRaises
    \/ Launch
    \/ LaunchRaises
    \/ MainNewContext
    \/ MainNewContextRaises
    \/ LoadTestcases
    \/ NoTestcases
    \/ LoadTestcasesRaises
    \/ TestReturns
    \/ TestRaises
    \/ SaveStorageState
    \/ Close
    \/ WriteReport
    \/ WriteReportFails

SpecRun == Init /\ [][RunNext]_vars

\* ------------------------------------------------------------------------
\* Properties
\* ------------------------------------------------------------------------
Terminal == pc \in {"done", "raised"}

\* the positions in errors of the entries with index i
EntriesAt(i) == {k \in DOMAIN errors : errors[k].index = i}

\* describe_page did not fail in this run
DescribeOk == \A k \in DOMAIN errors : errors[k].kind # "describe"

\* action i went through its dispatch step
Dispatched(i) == Len(outs) > i

Positions == 0..(Len(actions) - 1)

\* the normalized form of the plan's element i, for an element that has one
Norm(i) == NormalizeAction(actions[i + 1]).val

\* C1: if the operation dispatched for action i raises, the error is caught,
\* exactly one entry with index i and the offending action is appended, every
\* action at a position j > i is still dispatched, and execute_test returns.
C1_RaiseIsolated ==
    Terminal =>
        \A k \in DOMAIN calls :
            calls[k].raised =>
                /\ Cardinality(EntriesAt(calls[k].idx)) = 1
                /\ \A e \in EntriesAt(calls[k].idx) :
                      errors[e].kind = "exception" /\ errors[e].action = Norm(calls[k].idx)
                /\ \A j \in Positions : j > calls[k].idx => Dispatched(j)
                /\ pc = "done"

AssertFailedAt(i) ==
    IsKind(Norm(i), "assert") /\ outs[i + 1] \in {"timeout", "mismatch"}

SucceededAt(j) == outs[j + 1] \in {"ok", "match"}

\* C2: when one assert action's element never becomes visible or its text does
\* not match, and every other action succeeds, the result is failed and errors
\* holds exactly one entry, whose index is the position of that assert.
C2_AssertFailureRecorded ==
    (pc = "done" /\ DescribeOk) =>
        \A i \in Positions :
            (AssertFailedAt(i) /\ \A j \in Positions \ {i} : SucceededAt(j)) =>
                /\ status = "failed"
                /\ Len(errors) = 1
                /\ errors[1].index = i

\* C3: a fill, click or wait that fails in the browser (selector not found,
\* wait timed out) leaves an entry with its index in errors, and the result is
\* failed.
C3_SessionFailureRecorded ==
    pc = "done" =>
        \A i \in Positions :
            (/\ \E k \in {"fill", "click", "wait"} : IsKind(Norm(i), k)
             /\ outs[i + 1] = "error") =>
                status = "failed" /\ EntriesAt(i) # {}

\* C4: a returned result has status ok exactly when errors is empty, failed
\* exactly when it is not, and no other status.
C4_StatusIffErrors ==
    pc = "done" =>
        /\ status \in {"ok", "failed"}
        /\ (status = "ok") <=> (errors = <<>>)
        /\ (status = "failed") <=> (errors # <<>>)

\* a result returned as failed whose entries are all explain or unknown-action
\* messages: no except branch ran, Step 5 alone decided the status
C4_Witness ==
    /\ pc = "done"
    /\ status = "failed"
    /\ errors # <<>>
    /\ \A k \in DOMAIN errors : errors[k].kind \in {"explain", "unknown"}

\* the plan's element i is an object whose kind is none of the six
UnknownKindAt(i) ==
    /\ IsDict(actions[i + 1])
    /\ \A k \in Kinds : ~IsKind(Norm(i), k)

\* C5: for an action list holding an action of unknown kind at i, execute_test
\* does not raise, records exactly one unknown-action entry with index i, calls
\* no operation for it, and executes every later action.
C5_UnknownIsolated ==
    Terminal =>
        \A i \in Positions :
            UnknownKindAt(i) =>
                /\ pc = "done"
                /\ Cardinality(EntriesAt(i)) = 1
                /\ \A e \in EntriesAt(i) : errors[e].kind = "unknown"
                /\ \A k \in DOMAIN calls : calls[k].idx # i
                /\ \A j \in Positions : Dispatched(j)

\* C6: normalization is total: whatever the element of the parsed array,
\* normalize_action returns, and no element makes execute_test raise.
C6_NormalizeTotal == pc # "raised" /\ exc = "none"

\* the text holds no "[" with a "]" after it
NoBracketedArray(txt) ==
    ~\E i \in DOMAIN txt : \E j \in DOMAIN txt : i < j /\ txt[i] = "[" /\ txt[j] = "]"

\* C7 as amended: for a raw output with no bracketed array, _extract_json
\* yields None and _plan_actions returns exactly one action, of kind explain,
\* whose message is "Failed to parse model output" and whose raw field is the
\* raw text.
C7_ExplainCarriesRaw ==
    [][(pc = "parsed" /\ NoBracketedArray(raw)) =>
          /\ ~parsed.ok
          /\ Len(actions') = 1
          /\ KindOf(actions'[1]) = W("explain")
          /\ Get(actions'[1], K("message"), JNull) = W("Failed to parse model output")
          /\ Get(actions'[1], K("raw"), JNull) = JStr(raw)]_vars

\* the plan made for the answer "Sorry", which holds no array
C7_Witness ==
    /\ pc = "loop"
    /\ idx = 0
    /\ llm.src = "plain"
    /\ Len(actions) = 1
    /\ Get(actions[1], K("raw"), JNull) = W("Sorry")

\* C7: for a raw output with no bracketed array, _extract_json yields None and
\* _plan_actions returns exactly one action, of kind explain, whose message
\* field is the raw text.
C7_MessageIsRaw ==
    [][(pc = "parsed" /\ NoBracketedArray(raw)) =>
          /\ ~parsed.ok
          /\ Len(actions') = 1
          /\ KindOf(actions'[1]) = W("explain")
          /\ Get(actions'[1], K("message"), JNull) = JStr(raw)]_vars

\* C8: after a failed backend call, whatever the error text, the plan is one
\* explain action, execute_test calls no operation, does not raise, and returns
\* failed with exactly one entry, of index 0.
C8_TransportIsExplain ==
    llm.src = "transport" =>
        /\ pc # "raised"
        /\ calls = <<>>
        /\ pc \in {"loop", "dispatch", "done"} =>
              Len(actions) = 1 /\ IsKind(actions[1], "explain")
        /\ (pc = "done" /\ DescribeOk) =>
              status = "failed" /\ Len(errors) = 1 /\ errors[1].index = 0

\* C9: for a raw output that holds the text of a valid array, in double or
\* single quotes, with or without trailing commas, inside other text,
\* _extract_json returns that array.
C9_ExtractsArray ==
    (pc = "parsed" /\ llm.src = "array") => (parsed.ok /\ parsed.val = llm.val)

\* C10: for an object without an "action" key, the first key of the priority
\* list that it has becomes the kind; a string value becomes the selector, and
\* the fields of an object value become fields of the action.
C10_ShorthandKind ==
    (pc = "dispatch" /\ IsDict(actions[idx + 1])) =>
        LET r == actions[idx + 1]
        IN  (~HasKey(r, K("action")) /\ FirstKey(r) # 0) =>
                LET key == PriorityKeys[FirstKey(r)]
                    v == Item(r, K(key))
                IN  /\ KindOf(act) = W(key)
                    /\ IsStr(v) => SelOf(act) = v
                    /\ IsDict(v) =>
                          \A n \in DOMAIN v.keys :
                              Get(act, v.keys[n], JNull) = v.kids[n]

\* C11: normalization is idempotent on objects: an object that has an
\* "action" key is returned unchanged, and normalizing the normalized form of
\* any object returns that form.
C11_NormalizeIdempotent ==
    (pc = "dispatch" /\ IsDict(actions[idx + 1])) =>
        /\ HasKey(actions[idx + 1], K("action")) => act = actions[idx + 1]
        /\ NormalizeAction(act) = [raised |-> FALSE, val |-> act]

\* the shorthand fill was rewritten, and its canonical form normalizes to itself
C11_Witness ==
    /\ pc = "dispatch"
    /\ actions[idx + 1] = ShortFill
    /\ act = ActFill
    /\ NormalizeAction(act).val = act

Summarizers == {"get_page_elements", "describe_page"}

\* C12 as amended: query_selector_all is invoked at a URL only while the cache
\* has no entry for it; a query that returns creates the entry, so every later
\* summarization at that URL is a hit with no query; a query that raises
\* leaves the cache as it was.
C12_NoQueryOnceCached ==
    [][\A u \in URLs :
          /\ dom_cache[u].has => queries'[u] = queries[u]
          /\ queries'[u].returned > queries[u].returned =>
                dom_cache'[u].has /\ queries'[u].returned = 1
          /\ queries'[u].raised > queries[u].raised => dom_cache' = dom_cache]_vars

\* a URL whose first query raised and whose second returned is served from
\* the cache
C12_Witness ==
    /\ last.op \in Summarizers
    /\ last.out = "hit"
    /\ queries[url].raised = 1
    /\ queries[url].returned = 1

\* C12: within one session, whatever the summarizations and navigations,
\* query_selector_all is invoked at most once per distinct URL.
C12_QueryOncePerUrl == \A u \in URLs : QueryCount(u) <= 1

\* C13: the snapshot cache is never invalidated or refreshed: no operation
\* removes or replaces an entry, and a summarization at a URL that has an
\* entry returns that entry's elements whatever the page shows now.
C13_CacheNeverRefreshed ==
    [][/\ \A u \in URLs : dom_cache[u].has => dom_cache'[u] = dom_cache[u]
       /\ (last'.op \in Summarizers /\ page /\ dom_cache[url].has) =>
             /\ last'.out = "hit"
             /\ ret' = dom_cache[url].val]_vars

\* a hit that returns the stored elements although the page now shows others
C13_Witness ==
    /\ last.op \in Summarizers
    /\ last.out = "hit"
    /\ ret = dom_cache[url].val
    /\ ret = <<"input#email", "button#accept">>
    /\ dom = <<Gone>>
    /\ \E u \in URLs \ {url} : dom_cache[u].has

SessionOps == {"open_page", "fill", "click", "assert_text", "wait_for"}

\* C14: each of open_page, fill, click, assert_text and wait_for, called
\* before a page exists, raises to its caller instead of returning.
C14_NoPageRaises ==
    (last.op \in SessionOps /\ last.out = "nopage") => last.raised

Count(ev, x) == Cardinality({i \in DOMAIN ev : ev[i] = x})

AfterLoop == mpc \in {"finally", "report", "exit"}

\* C15: in a run over loaded test cases the results hold exactly one record
\* per test case run, in test order, whether the test returned ok, returned
\* failed or raised; and once the loop is left every test case was run.
C15_OneRecordPerTest ==
    /\ Len(all_results) = ti
    /\ ti <= Len(tests)
    /\ \A i \in DOMAIN all_results : all_results[i].test_name = tests[i]
    /\ (AfterLoop /\ tests # <<>>) =>
          ti = Len(tests) /\ Count(events, "execute_test") = Len(tests)

\* a run that is over, in which the first test raised and the second ran and
\* returned ok
C15_Witness ==
    /\ mpc = "exit"
    /\ Len(tests) = 2
    /\ Len(all_results) = 2
    /\ all_results[1].error
    /\ all_results[2].status = "ok"
    /\ all_results[2].test_name = tests[2]

\* C16: whatever the outcome of agent construction, launch, context creation,
\* test loading and of each test, main reaches the report write before it
\* ends, and a report written holds all_results.
C16_ReportReached ==
    mpc = "exit" =>
        /\ Count(events, "write_report") = 1
        /\ report.state = "written" => report.data = all_results

\* what main and execute_test do with the session
SessionUses == {"launch", "new_context", "execute_test", "save_storage_state"}

EngineCloses == {"context.close", "browser.close", "playwright.stop"}

\* C20: the session is closed only inside close(), which main calls exactly
\* once in a run that entered the launch phase and never otherwise, after the
\* last test and after the storage-state save; nothing uses the session after
\* close.
C20_ClosedOnceLast ==
    /\ Count(events, "close") <= 1
    /\ mpc = "exit" => (Count(events, "close") = 1 <=> Count(events, "launch") = 1)
    /\ \A i \in DOMAIN events : \A j \in DOMAIN events :
          (i < j /\ events[i] = "close") => events[j] \notin SessionUses
    /\ \A j \in DOMAIN events :
          events[j] \in EngineCloses => \E i \in 1..(j - 1) : events[i] = "close"

\* a run over two tests, ended: the tests, the save, close and its three
\* closes, then the report
C20_Witness ==
    /\ mpc = "exit"
    /\ events = <<"launch", "new_context", "execute_test", "execute_test",
                  "save_storage_state", "close", "context.close", "browser.close",
                  "playwright.stop", "write_report">>

BrowserKinds == {"open", "fill", "click", "assert", "wait"}

\* the operation the dispatch table gives a kind
OpOf(k) ==
    CASE k = "open" -> "open_page"
      [] k = "fill" -> "fill"
      [] k = "click" -> "click"
      [] k = "assert" -> "assert_text"
      [] k = "wait" -> "wait_for"

\* what the operation of kind k is given besides the selector
ArgOf(a, k) ==
    CASE k = "fill" -> Get(a, K("value"), EmptyStr)
      [] k = "assert" -> Get(a, K("expected"), EmptyStr)
      [] OTHER -> JNull

\* the positions of the plan whose action has kind k
OfKind(k) == {i \in Positions : IsDict(actions[i + 1]) /\ IsKind(Norm(i), k)}

BrowserPositions == UNION {OfKind(k) : k \in BrowserKinds}

\* C17: when execute_test ends, the calls made on the session are one call per
\* action of kind open, fill, click, assert or wait, in plan order, each the
\* operation of its kind with the action's selector and its value or expected
\* (the empty string by default); explain and unknown actions make no call.
C17_DispatchInPlanOrder ==
    Terminal =>
        /\ Len(calls) = Cardinality(BrowserPositions)
        /\ \A k \in DOMAIN calls : \A m \in DOMAIN calls :
              k < m => calls[k].idx < calls[m].idx
        /\ \A k \in DOMAIN calls :
              \E kind \in BrowserKinds :
                  /\ calls[k].idx \in OfKind(kind)
                  /\ calls[k].op = OpOf(kind)
                  /\ calls[k].sel = SelOf(Norm(calls[k].idx))
                  /\ calls[k].arg = ArgOf(Norm(calls[k].idx), kind)

Readable(c) == ~c.detached

\* the elements of the candidates that can be read, in their order
ReadableEls(elements) ==
    LET s == SelectSeq(elements, Readable) IN [i \in DOMAIN s |-> s[i].el]

\* C18: a summarization that queries returns, and stores for the URL, exactly
\* the candidates whose attributes could be read, in their order; a candidate
\* that cannot be read is skipped and the call does not raise.
C18_FailuresSkipped ==
    (last.op \in Summarizers /\ last.out = "scraped") =>
        /\ ~last.raised
        /\ ret = ReadableEls(dom)
        /\ dom_cache[url] = Entry(ret)

\* a detached element between two readable ones was left out
C18_Witness ==
    /\ last.op \in Summarizers
    /\ last.out = "scraped"
    /\ dom = <<Email, Gone, Accept>>
    /\ ret = <<"input#email", "button#accept">>

\* C19: the actions of the result are the plan as _plan_actions returned it:
\* no step of the loop adds, removes, reorders or changes an element.
C19_ActionsAsPlanned ==
    [][/\ pc = "parsed" => actions' = PlanResult(parsed, raw)
       /\ pc \in {"loop", "dispatch"} => actions' = actions]_vars

\* a returned result whose plan still holds the shorthand fill, while the
\* entry of its failed call holds the normalized action
C19_Witness ==
    /\ pc = "done"
    /\ actions = <<ShortFill>>
    /\ Len(errors) = 1
    /\ errors[1].action = ActFill

\* the positions in errors of the entries the loop appended
LoopEntries == {k \in DOMAIN errors : errors[k].kind # "describe"}

\* C21: every entry the loop appends carries an index in 0..len(actions)-1,
\* the entries are in strictly increasing index order (so at most one per
\* action), the entry of a failed describe_page comes first, and errors holds
\* at most len(actions) entries besides it.
C21_EntriesIndexed ==
    /\ \A k \in DOMAIN errors : errors[k].kind = "describe" => k = 1
    /\ \A k \in LoopEntries : errors[k].index \in 0..(Len(actions) - 1)
    /\ \A k \in LoopEntries : \A m \in LoopEntries :
          k < m => errors[k].index < errors[m].index
    /\ Cardinality(LoopEntries) <= Len(actions)
    /\ Len(errors) <= Len(actions) + 1

\* a returned result over two actions with the describe entry first, then the
\* entry of a raised call at index 0 and an unknown-action entry at index 1
C21_Witness ==
    /\ pc = "done"
    /\ Len(actions) = 2
    /\ Len(errors) = 3
    /\ errors[1].kind = "describe"
    /\ errors[2].kind = "exception" /\ errors[2].index = 0
    /\ errors[3].kind = "unknown" /\ errors[3].index = 1

====
